---------------------------- MODULE Spec2Model ----------------------------
(***************************************************************************)
(* Margin Optimizer, browser side: the formatter (Utils), the three        *)
(* analysis controllers (analyzeService, analyzeRenewal, analyzeVendor),   *)
(* the strategy modal (showStrategy) and the vendor autocomplete.          *)
(*                                                                         *)
(* Seven specifications share the variables:                                *)
(*   SpecFmt   the pure functions of Utils applied to bounded inputs;      *)
(*   SpecView  the renderers applied to bounded payloads;                  *)
(*   Spec      the request controllers and the view state they toggle;     *)
(*   SpecErr   the Service tab with a clock for the error banner;          *)
(*   SpecStrategy  the strategy modal over a loaded service analysis;      *)
(*   SpecRenewal   the sections of the renewal tab over several analyses;  *)
(*   SpecAuto  the vendor tab: autocomplete, its timers, the vendor form,  *)
(*             up to the analyses it requests (Spec handles the responses, *)
(*             which touch neither the field nor the suggestion panel).    *)
(* fadeIn/fadeOut are modelled by their end state (visible / hidden).      *)
(*                                                                         *)
(* The three controllers share no variable and no element of the page, so  *)
(* what one does cannot change what another shows.  Spec therefore follows *)
(* the user in one tab of the dashboard, chosen in Init; every tab is      *)
(* explored, and within a tab every interleaving of its events.            *)
(***************************************************************************)
EXTENDS Integers, Sequences, FiniteSets, TLC

\* ------------------------------------------------------------------ bounds
\* Margins are modelled in tenths of a percent, from -MaxGMTenths to MaxGMTenths.
MaxGMTenths == 600
\* Requests issued in one behaviour of Spec (all kinds together).
MaxRequests == 2

\* The value of a container nothing was rendered into, of a variable still null.
NoData == [kind |-> "none", req |-> 0, arg |-> "", error |-> ""]
\* What a container holds: nothing, the rendering of a payload, or an error text.
Rendering(kind, data, button) ==
    [kind |-> kind, data |-> data, buttonServiceId |-> button]
Nothing == Rendering("none", NoData, "")

\* ----------------------------------------------------------------- strings
\* The texts a user leaves in an identifier field before submitting.
FieldValues == {"", " ", "a", " b "}

CharAt(s, i) == SubSeq(s, i, i)

RECURSIVE TrimStart(_)
TrimStart(s) ==
    IF Len(s) > 0 /\ CharAt(s, 1) = " " THEN TrimStart(SubSeq(s, 2, Len(s))) ELSE s

RECURSIVE TrimEnd(_)
TrimEnd(s) ==
    IF Len(s) > 0 /\ CharAt(s, Len(s)) = " " THEN TrimEnd(SubSeq(s, 1, Len(s) - 1)) ELSE s

\* A mutant of Trim: the identifier is used untrimmed.
TrimNot(s) == s

\* String.prototype.trim
Trim(s) == TrimEnd(TrimStart(s))

\* ---------------------------------------------------------------- Utils
\* gm is in tenths of a percent; pct is a whole percentage.
AtLeast(gm, pct) == gm >= pct * 10

getGMStatusClass(gm) ==
    IF AtLeast(gm, 50) THEN "bg-success"
    ELSE IF AtLeast(gm, 40) THEN "bg-warning"
    ELSE "bg-danger"

\* A mutant of getGMStatusText: the upper threshold is exclusive.
getGMStatusTextStrict(gm) ==
    IF gm > 50 * 10 THEN "Excellent"
    ELSE IF AtLeast(gm, 40) THEN "Acceptable"
    ELSE "Needs Action"

getGMStatusText(gm) ==
    IF AtLeast(gm, 50) THEN "Excellent"
    ELSE IF AtLeast(gm, 40) THEN "Acceptable"
    ELSE "Needs Action"

getGMCardClass(gm) ==
    IF AtLeast(gm, 50) THEN "gm-success"
    ELSE IF AtLeast(gm, 40) THEN "gm-warning"
    ELSE "gm-danger"

\* ------------------------------------------------------------- variables
VARIABLES
    fmtIn,              \* SpecFmt: the argument last given to the formatter
    fmtOut,             \* SpecFmt: what the formatter returned for it
    viewIn,             \* SpecView: the renderer last applied and its argument
    viewOut,            \* SpecView: what that renderer wrote
    display,            \* element id -> visible (style.display / show / hide)
    text,               \* element id -> text content of the three error banners
    rendered,           \* container id -> what was last rendered into it
    currentServiceId,   \* analyze.js module variable
    currentServiceData, \* analyze.js module variable
    inflight,           \* the requests awaiting their response
    nextReq,            \* the number of requests issued so far
    errorTimers,        \* the auto-hide timeouts started by Utils.showError and
                        \* not yet run: the milliseconds each has left, oldest first
    vendorInput,        \* the value of the #vendorName field
    autocompleteTimeout, \* main.js module variable: a timer id, 0 for null
    timers,             \* the timeouts set by the input handler and not yet run
    nextTimer,          \* the number of timeouts set so far
    lookups,            \* the autocomplete requests awaiting their response
    nextLookup,         \* the number of autocomplete requests issued so far
    rows,               \* the rows of #vendorAutocomplete
    tab,                \* the dashboard tab the user works in
    last,               \* the event handled last (history)
    lastInput,          \* the last input event: its text, the time passed
                        \* since, the lookups issued since (history)
    hiddenBy,           \* the event that last hid the suggestion panel (history)
    hiddenAt,           \* the number of lookups issued when it did (history)
    rowsFrom,           \* the number of the lookup whose response wrote the
                        \* rows of the panel, 0 for none (history)
    sections            \* SpecRenewal: the VPL and the nearby-quotes section of
                        \* the renewal tab: visible, its blocks, and the number
                        \* of the request whose payload wrote them

vars == <<fmtIn, fmtOut, viewIn, viewOut, display, text, rendered, currentServiceId,
          currentServiceData, inflight, nextReq, errorTimers, vendorInput,
          autocompleteTimeout, timers, nextTimer, lookups, nextLookup, rows,
          tab, last, lastInput, hiddenBy, hiddenAt, rowsFrom, sections>>

\* The arguments and results of the pure functions.
fmtVars == <<fmtIn, fmtOut, viewIn, viewOut>>
\* The state of the page and of the scripts.
ctlVars == <<display, text, rendered, currentServiceId, currentServiceData,
             inflight, nextReq, errorTimers, vendorInput, autocompleteTimeout,
             timers, nextTimer, lookups, nextLookup, rows>>
\* What only the vendor tab's specification moves.
autoVars == <<vendorInput, autocompleteTimeout, timers, nextTimer, lookups,
              nextLookup, rows>>
autoHist == <<lastInput, hiddenBy, hiddenAt, rowsFrom>>

\* ------------------------------------------------------------ the page
Types == {"service", "renewal", "vendor"}
Kinds == Types \cup {"strategy"}

Elems == {"loadingSpinner", "resultsContainer", "welcomeMessage", "quickStats",
          "errorAlert",
          "renewalLoadingSpinner", "renewalErrorAlert", "renewalQuickSummary",
          "vocLineInfo", "renewalResults",
          "vendorLoadingSpinner", "vendorErrorAlert", "vendorWelcomeMessage",
          "vendorResults", "vendorQuickSummary",
          "strategyModal", "strategyLoading", "strategyContent",
          "vendorAutocomplete"}

Containers == {"resultsContainer", "renewalResults", "vendorResults", "strategyContent"}
Banners == {"errorMessage", "renewalErrorMessage", "vendorErrorMessage"}

Spinner(t) ==
    CASE t = "service" -> "loadingSpinner"
      [] t = "renewal" -> "renewalLoadingSpinner"
      [] t = "vendor" -> "vendorLoadingSpinner"
      [] t = "strategy" -> "strategyLoading"

ErrorAlert(t) ==
    CASE t = "service" -> "errorAlert"
      [] t = "renewal" -> "renewalErrorAlert"
      [] t = "vendor" -> "vendorErrorAlert"

ErrorMessage(t) ==
    CASE t = "service" -> "errorMessage"
      [] t = "renewal" -> "renewalErrorMessage"
      [] t = "vendor" -> "vendorErrorMessage"

Results(t) ==
    CASE t = "service" -> "resultsContainer"
      [] t = "renewal" -> "renewalResults"
      [] t = "vendor" -> "vendorResults"
      [] t = "strategy" -> "strategyContent"

Show(d, S) == [e \in DOMAIN d |-> IF e \in S THEN TRUE ELSE d[e]]
Hide(d, S) == [e \in DOMAIN d |-> IF e \in S THEN FALSE ELSE d[e]]

\* ------------------------------------------------------- the backend
\* What a request can come back with: the transport fails (fetch rejects), or
\* a response arrives.  A success status comes with the payload asked for, an
\* {error: e} object, a JSON object that lacks the fields the renderer reads
\* (modelled by {}), or a body that is no JSON.  A non-success status comes,
\* by the backend's error convention, with {error: e}, or with a body that is
\* no JSON (the error page of a proxy).
ErrStrings == {"e1", "e2"}

Responses ==
    {[status |-> "neterr", body |-> "none", error |-> ""]}
    \cup [status : {"ok"}, body : {"payload", "empty", "notjson"}, error : {""}]
    \cup [status : {"fail"}, body : {"notjson"}, error : {""}]
    \cup [status : {"ok", "fail"}, body : {"error"}, error : ErrStrings]

\* response.json(): the object the body parses to.
Json(req, resp) ==
    [kind |-> resp.body, req |-> req.id, arg |-> req.arg, error |-> resp.error]

\* Messages of the exceptions the browser raises: fetch's rejection, the
\* SyntaxError of response.json(), the TypeError of reading a field of undefined.
NetMsg == "Failed to fetch"
SyntaxMsg == "Unexpected token"
TypeMsg == "Cannot read properties of undefined"

\* The error a call ends with before any payload is parsed ("" when none):
\* fetch rejected, or response.json() threw.
TransportError(resp) ==
    IF resp.status = "neterr" THEN NetMsg
    ELSE IF resp.body = "notjson" THEN SyntaxMsg
    ELSE ""

\* A request: its number, its endpoint, the identifier it carries and, for a
\* strategy request, the object whose vpl_options it attaches.
Request(id, kind, arg, vpl) == [id |-> id, kind |-> kind, arg |-> arg, vpl |-> vpl]

\* ------------------------------------------------- the controllers' state
\* The handlers are sequences of assignments: each is an operator from the
\* state it starts in to the state it leaves, over this record.
Here ==
    [display |-> display, text |-> text, rendered |-> rendered,
     currentServiceId |-> currentServiceId,
     currentServiceData |-> currentServiceData,
     inflight |-> inflight, nextReq |-> nextReq, errorTimers |-> errorTimers,
     vendorInput |-> vendorInput, autocompleteTimeout |-> autocompleteTimeout,
     timers |-> timers, nextTimer |-> nextTimer, lookups |-> lookups,
     nextLookup |-> nextLookup, rows |-> rows]

Becomes(st) ==
    /\ display' = st.display
    /\ text' = st.text
    /\ rendered' = st.rendered
    /\ currentServiceId' = st.currentServiceId
    /\ currentServiceData' = st.currentServiceData
    /\ inflight' = st.inflight
    /\ nextReq' = st.nextReq
    /\ errorTimers' = st.errorTimers
    /\ vendorInput' = st.vendorInput
    /\ autocompleteTimeout' = st.autocompleteTimeout
    /\ timers' = st.timers
    /\ nextTimer' = st.nextTimer
    /\ lookups' = st.lookups
    /\ nextLookup' = st.nextLookup
    /\ rows' = st.rows

\* fetch(...): one request leaves; its response is handled by a later step.
Fetch(st, kind, arg, vpl) ==
    [st EXCEPT !.inflight = @ \cup {Request(st.nextReq + 1, kind, arg, vpl)},
               !.nextReq = @ + 1]

\* The response of req has been handed to its continuation.
Settled(st, req) == [st EXCEPT !.inflight = @ \ {req}]

\* The delay of the timeout of Utils.showError, in milliseconds.
ErrorDelay == 5000

\* Utils.showError: the text, fadeIn, and a timeout that fades the banner out.
showError(st, message) ==
    [st EXCEPT !.text["errorMessage"] = message,
               !.display = Show(@, {"errorAlert"}),
               !.errorTimers = Append(@, ErrorDelay)]

\* Utils.hideError
hideError(st) == [st EXCEPT !.display = Hide(@, {"errorAlert"})]

showRenewalError(st, message) ==
    [st EXCEPT !.text["renewalErrorMessage"] = message,
               !.display = Show(@, {"renewalErrorAlert"})]

showVendorError(st, message) ==
    [st EXCEPT !.text["vendorErrorMessage"] = message,
               !.display = Show(@, {"vendorErrorAlert"})]

\* ---------------------------------------------------------- the renderers
\* displayResults, for a payload that has every field it reads. The View
\* Strategy buttons it writes carry currentServiceId as it is at render time.
displayResults(st, data) ==
    [st EXCEPT !.rendered["resultsContainer"] =
                   Rendering("results", data, st.currentServiceId),
               !.display = Show(@, {"resultsContainer", "quickStats"})]

displayRenewalResults(st, data) ==
    [st EXCEPT !.rendered["renewalResults"] = Rendering("results", data, ""),
               !.display = Show(@, {"renewalQuickSummary", "vocLineInfo",
                                    "renewalResults"})]

\* displayVendorResults reads every field behind a default (|| {}, || [], || 0):
\* it renders any JSON object.
displayVendorResults(st, data) ==
    [st EXCEPT !.rendered["vendorResults"] = Rendering("results", data, ""),
               !.display = Show(@, {"vendorQuickSummary", "vendorResults"})]

displayStrategy(st, data) ==
    [st EXCEPT !.rendered["strategyContent"] = Rendering("strategy", data, ""),
               !.display = Show(@, {"strategyContent"})]

\* ------------------------------------------------------- analyzeService
\* analyzeService up to its first await: the reset, currentServiceId, fetch.
analyzeService(st, serviceId) ==
    Fetch([hideError(st) EXCEPT
               !.display = Show(Hide(@, {"welcomeMessage", "resultsContainer",
                                         "quickStats"}),
                                {"loadingSpinner"}),
               !.currentServiceId = serviceId],
          "service", serviceId, NoData)

\* The catch block of analyzeService.
ServiceCatch(st, message) ==
    [showError(st, message) EXCEPT !.display = Show(@, {"welcomeMessage"})]

\* A mutant of ServiceFinally: the spinner is hidden on the success path only.
ServiceFinallyOnSuccess(st) ==
    IF st.display["errorAlert"] THEN st
    ELSE [st EXCEPT !.display = Hide(@, {"loadingSpinner"})]

\* The finally block of analyzeService.
ServiceFinally(st) == [st EXCEPT !.display = Hide(@, {"loadingSpinner"})]

\* analyzeService from the response on. displayResults reads data.service
\* first: a body without it throws before anything is written to the page.
analyzeServiceSettle(st, req, resp) ==
    LET data == Json(req, resp)
        loaded == [st EXCEPT !.currentServiceData = data]
    IN ServiceFinally(
           IF TransportError(resp) # ""
               THEN ServiceCatch(st, TransportError(resp))
           ELSE IF resp.status # "ok"
               THEN ServiceCatch(st, IF data.error # "" THEN data.error
                                     ELSE "Failed to analyze service")
           ELSE IF data.kind = "payload"
               THEN displayResults(loaded, data)
           ELSE ServiceCatch(loaded, TypeMsg))

\* ------------------------------------------------------- analyzeRenewal
\* analyzeRenewal up to fetch.
analyzeRenewal(st, serviceId) ==
    Fetch([st EXCEPT
               !.display = Hide(Show(@, {"renewalLoadingSpinner"}),
                                {"renewalErrorAlert", "renewalQuickSummary",
                                 "vocLineInfo", "renewalResults"})],
          "renewal", serviceId, NoData)

\* The .catch of analyzeRenewal.
RenewalCatch(st, message) ==
    showRenewalError([st EXCEPT !.display = Hide(@, {"renewalLoadingSpinner"})],
                     "Network error: " \o message)

\* The two .then and the .catch of analyzeRenewal. The status is not read.
\* displayRenewalResults reads data.service.currency first: a body without
\* service throws before anything is written, and the .catch handles it.
analyzeRenewalSettle(st, req, resp) ==
    LET data == Json(req, resp)
        hidden == [st EXCEPT !.display = Hide(@, {"renewalLoadingSpinner"})]
    IN IF TransportError(resp) # "" THEN RenewalCatch(st, TransportError(resp))
       ELSE IF data.error # "" THEN showRenewalError(hidden, data.error)
       ELSE IF data.kind = "payload" THEN displayRenewalResults(hidden, data)
       ELSE RenewalCatch(hidden, TypeMsg)

\* -------------------------------------------------------- analyzeVendor
\* analyzeVendor up to fetch.
analyzeVendor(st, vendorName) ==
    Fetch([st EXCEPT
               !.display = Hide(Show(@, {"vendorLoadingSpinner"}),
                                {"vendorErrorAlert", "vendorWelcomeMessage",
                                 "vendorResults"})],
          "vendor", vendorName, NoData)

\* The .catch of analyzeVendor.
VendorCatch(st, message) ==
    showVendorError([st EXCEPT !.display = Hide(@, {"vendorLoadingSpinner"})],
                    "Failed to analyze vendor: " \o message)

\* The two .then and the .catch of analyzeVendor. The status is not read.
analyzeVendorSettle(st, req, resp) ==
    LET data == Json(req, resp)
        hidden == [st EXCEPT !.display = Hide(@, {"vendorLoadingSpinner"})]
    IN IF TransportError(resp) # "" THEN VendorCatch(st, TransportError(resp))
       ELSE IF data.error # "" THEN showVendorError(hidden, data.error)
       ELSE displayVendorResults(hidden, data)

\* --------------------------------------------------------- showStrategy
\* showStrategy up to fetch: the modal opens, the content is emptied, and the
\* request takes the vpl_options of currentServiceData.
showStrategy(st, serviceId) ==
    Fetch([st EXCEPT
               !.display = Hide(Show(@, {"strategyModal", "strategyLoading"}),
                                {"strategyContent"}),
               !.rendered["strategyContent"] = Nothing],
          "strategy", serviceId, st.currentServiceData)

\* The catch block of showStrategy: the message goes into the modal.
StrategyCatch(st, message) ==
    [st EXCEPT !.rendered["strategyContent"] =
                   Rendering("error", [NoData EXCEPT !.error = message], ""),
               !.display = Show(@, {"strategyContent"})]

\* showStrategy from the response on. displayStrategy reads data.vendor_quote
\* first: a body without it throws before anything is written.
showStrategySettle(st, req, resp) ==
    LET data == Json(req, resp)
        after ==
            IF TransportError(resp) # "" THEN StrategyCatch(st, TransportError(resp))
            ELSE IF resp.status # "ok"
                THEN StrategyCatch(st, IF data.error # "" THEN data.error
                                       ELSE "Failed to load strategy")
            ELSE IF data.kind = "payload" THEN displayStrategy(st, data)
            ELSE StrategyCatch(st, TypeMsg)
    IN [after EXCEPT !.display = Hide(@, {"strategyLoading"})]

\* The hidden.bs.modal handler ("Close modal cleanup").
StrategyModalHidden(st) ==
    [st EXCEPT !.display = Hide(Show(@, {"strategyLoading"}),
                                {"strategyModal", "strategyContent"}),
               !.rendered["strategyContent"] = Nothing]

\* ------------------------------------------------------------- handlers
\* The submit handler of #analyzeForm.
OnAnalyzeFormSubmit(st, value) ==
    LET serviceId == Trim(value)
    IN IF serviceId # "" THEN analyzeService(st, serviceId) ELSE st

\* The submit handler of analyzeRenewalForm.
OnRenewalFormSubmit(st, value) ==
    LET serviceId == Trim(value)
    IN IF serviceId # "" THEN analyzeRenewal(st, serviceId) ELSE st

\* The submit handler of analyzeVendorForm.
OnVendorFormSubmit(st, value) ==
    LET vendorName == Trim(value)
    IN IF vendorName # ""
       THEN analyzeVendor([st EXCEPT !.display = Hide(@, {"vendorAutocomplete"})],
                          vendorName)
       ELSE st

OnSubmit(st, t, value) ==
    CASE t = "service" -> OnAnalyzeFormSubmit(st, value)
      [] t = "renewal" -> OnRenewalFormSubmit(st, value)
      [] t = "vendor" -> OnVendorFormSubmit(st, value)

OnSettle(st, req, resp) ==
    CASE req.kind = "service" -> analyzeServiceSettle(st, req, resp)
      [] req.kind = "renewal" -> analyzeRenewalSettle(st, req, resp)
      [] req.kind = "vendor" -> analyzeVendorSettle(st, req, resp)
      [] req.kind = "strategy" -> showStrategySettle(st, req, resp)

\* ------------------------------------------------------------- history
\* The event handled last: what it was ("blank" is the submission of a text
\* with nothing but spaces in it), the analysis it belongs to, the number of
\* the request settled and the response it got.
NoResp == [status |-> "none", body |-> "none", error |-> ""]
Event(ev, kind, id, resp) == [ev |-> ev, kind |-> kind, id |-> id, resp |-> resp]

IsBlank(value) == \A i \in 1..Len(value) : CharAt(value, i) = " "

\* The last input event: the text it left, the milliseconds passed since
\* (counted up to just past the debounce delay), the lookups issued since,
\* and of the last of these the term and the delay after the event.
InputEvent(value, elapsed, issued, term, after) ==
    [value |-> value, elapsed |-> elapsed, issued |-> issued, term |-> term,
     after |-> after]
NoInput == InputEvent("", 0, 0, "", 0)

\* -------------------------------------------------------------- actions
\* The page and the scripts as loaded.
Fresh ==
    [display |-> [e \in Elems |->
                     e \in {"welcomeMessage", "vendorWelcomeMessage", "strategyLoading"}],
     text |-> [b \in Banners |-> ""],
     rendered |-> [c \in Containers |-> Nothing],
     currentServiceId |-> "",
     currentServiceData |-> NoData,
     inflight |-> {}, nextReq |-> 0, errorTimers |-> <<>>,
     vendorInput |-> "", autocompleteTimeout |-> 0,
     timers |-> {}, nextTimer |-> 0, lookups |-> {}, nextLookup |-> 0,
     rows |-> <<>>]

\* The page and the scripts are in state st.
Is(st) ==
    /\ display = st.display
    /\ text = st.text
    /\ rendered = st.rendered
    /\ currentServiceId = st.currentServiceId
    /\ currentServiceData = st.currentServiceData
    /\ inflight = st.inflight
    /\ nextReq = st.nextReq
    /\ errorTimers = st.errorTimers
    /\ vendorInput = st.vendorInput
    /\ autocompleteTimeout = st.autocompleteTimeout
    /\ timers = st.timers
    /\ nextTimer = st.nextTimer
    /\ lookups = st.lookups
    /\ nextLookup = st.nextLookup
    /\ rows = st.rows

InitPage ==
    /\ Is(Fresh)
    /\ last = Event("load", "none", 0, NoResp)
    /\ lastInput = NoInput
    /\ hiddenBy = "none"
    /\ hiddenAt = 0
    /\ rowsFrom = 0

\* The user submits one of the three forms with `value` in its field.
Submit(t, value) ==
    /\ t = tab
    /\ UNCHANGED <<fmtVars, sections, tab, autoHist>>
    /\ OnSubmit(Here, t, value).nextReq <= MaxRequests
    /\ Becomes(OnSubmit(Here, t, value))
    /\ last' = Event(IF IsBlank(value) THEN "blank" ELSE "submit", t, 0, NoResp)

\* The response of an in-flight request arrives and its continuation runs.
Settle(req, resp) ==
    /\ UNCHANGED <<fmtVars, sections, tab, autoHist>>
    /\ req \in inflight
    /\ Becomes(Settled(OnSettle(Here, req, resp), req))
    /\ last' = Event("settle", req.kind, req.id, resp)

\* The oldest timeout started by Utils.showError runs, whatever time has
\* passed: $('#errorAlert').fadeOut().
ErrorTimerFire ==
    /\ UNCHANGED <<fmtVars, sections, tab, autoHist>>
    /\ errorTimers # <<>>
    /\ display' = Hide(display, {"errorAlert"})
    /\ errorTimers' = Tail(errorTimers)
    /\ last' = Event("errorTimer", "service", 0, NoResp)
    /\ UNCHANGED <<text, rendered, currentServiceId, currentServiceData,
                   inflight, nextReq, autoVars>>

\* The user clicks a View Strategy button of the rendered quote cards, while
\* fewer than `bound` requests have been issued.
ViewStrategyWithin(bound) ==
    /\ UNCHANGED <<fmtVars, sections, tab, autoHist>>
    /\ display["resultsContainer"]
    /\ rendered["resultsContainer"].kind = "results"
    /\ ~display["strategyModal"]
    /\ nextReq < bound
    /\ Becomes(showStrategy(Here, rendered["resultsContainer"].buttonServiceId))
    /\ last' = Event("strategy", "strategy", 0, NoResp)

ClickViewStrategy == ViewStrategyWithin(MaxRequests)

\* The user closes the strategy modal.
CloseStrategyModal ==
    /\ UNCHANGED <<fmtVars, sections, tab, autoHist>>
    /\ display["strategyModal"]
    /\ Becomes(StrategyModalHidden(Here))
    /\ last' = Event("modalHidden", "strategy", 0, NoResp)

NoFmt == [text |-> "", class |-> "", card |-> ""]
\* No renderer applied yet.
NoView == [fn |-> "none"]

\* The two sections of the renewal results that displayRenewalResults fills
\* on their own; as the page is loaded they are hidden and empty.
RenewalSections == {"renewalVplSection", "renewalNearbyQuotesSection"}
NoSections == [s \in RenewalSections |-> [shown |-> FALSE, blocks |-> <<>>, from |-> 0]]

Init ==
    /\ InitPage
    /\ tab \in Types
    /\ fmtIn = 0
    /\ fmtOut = NoFmt
    /\ viewIn = NoView
    /\ viewOut = NoView
    /\ sections = NoSections

Next ==
    \/ \E t \in Types, value \in FieldValues : Submit(t, value)
    \/ \E req \in inflight, resp \in Responses : Settle(req, resp)
    \/ ErrorTimerFire
    \/ ClickViewStrategy
    \/ CloseStrategyModal

Spec == Init /\ [][Next]_vars

\* -------------------------------------------------------- SpecStrategy
\* The strategy modal, from a page on which a service analysis has loaded:
\* View Strategy clicks, the modal closed, the responses in any order.
MaxStrategyRequests == 2

OkPayload == [status |-> "ok", body |-> "payload", error |-> ""]

\* The page after analyzeService(serviceId) has run and got its payload.
Loaded(serviceId) ==
    LET sent == analyzeService(Fresh, serviceId)
        req == CHOOSE r \in sent.inflight : TRUE
    IN Settled(analyzeServiceSettle(sent, req, OkPayload), req)

InitStrategy ==
    /\ \E serviceId \in {"a", "b"} : Is(Loaded(serviceId))
    /\ last = Event("settle", "service", 1, OkPayload)
    /\ lastInput = NoInput
    /\ hiddenBy = "none"
    /\ hiddenAt = 0
    /\ rowsFrom = 0
    /\ tab = "service"
    /\ fmtIn = 0
    /\ fmtOut = NoFmt
    /\ viewIn = NoView
    /\ viewOut = NoView
    /\ sections = NoSections

NextStrategy ==
    \/ ViewStrategyWithin(1 + MaxStrategyRequests)
    \/ CloseStrategyModal
    \/ \E req \in inflight, resp \in Responses : Settle(req, resp)

SpecStrategy == InitStrategy /\ [][NextStrategy]_vars

\* ------------------------------------------------------------- SpecErr
\* The Service tab with a clock: the timeouts of Utils.showError run when
\* their delay has passed.
\* A second passes. A timeout that is due runs before the clock moves on.
ErrorTick ==
    /\ errorTimers # <<>>
    /\ Head(errorTimers) > 0
    /\ errorTimers' = [i \in 1..Len(errorTimers) |-> errorTimers[i] - 1000]
    /\ last' = Event("tick", "service", 0, NoResp)
    /\ UNCHANGED <<fmtVars, sections, tab, autoHist, display, text, rendered,
                   currentServiceId, currentServiceData, inflight, nextReq,
                   autoVars>>

\* The oldest timeout is due and runs.
ErrorTimerDue ==
    /\ errorTimers # <<>>
    /\ Head(errorTimers) <= 0
    /\ ErrorTimerFire

InitErr ==
    /\ InitPage
    /\ tab = "service"
    /\ fmtIn = 0
    /\ fmtOut = NoFmt
    /\ viewIn = NoView
    /\ viewOut = NoView
    /\ sections = NoSections

NextErr ==
    \/ \E value \in FieldValues : Submit("service", value)
    \/ \E req \in inflight, resp \in Responses : Settle(req, resp)
    \/ ErrorTick
    \/ ErrorTimerDue

SpecErr == InitErr /\ [][NextErr]_vars

\* ------------------------------------------------ vendor autocomplete
\* The delay of the input handler's setTimeout, in milliseconds.
Debounce == 300
\* Timeouts the input handler sets in one behaviour of SpecAuto.
MaxTimers == 2
\* Vendor analyses requested in one behaviour of SpecAuto.
MaxAutoRequests == 1

\* The texts an input event leaves in the vendor field.
InputValues == {"a ", "ab", " bc "}

\* What /api/vendor-autocomplete answers: the vendors it matched.
VendorLists == {<<>>, <<"ab">>, <<"bc", "a\"b">>}

LookupResponses ==
    [status : {"neterr"}, body : {"none"}, error : {""}, vendors : {<<>>}]
    \cup [status : {"ok"}, body : {"error"}, error : {"e1"}, vendors : {<<>>}]
    \cup [status : {"ok"}, body : {"vendors"}, error : {""}, vendors : VendorLists]

\* The value the HTML parser gives an attribute written as name="<v>": the
\* text up to the first double quote of v.
RECURSIVE AttrValue(_)
AttrValue(v) ==
    IF Len(v) = 0 \/ CharAt(v, 1) = "\"" THEN ""
    ELSE CharAt(v, 1) \o AttrValue(SubSeq(v, 2, Len(v)))

\* A row of the panel: the vendor it was written for, the data-vendor
\* attribute the parser read, and whether it is a .vendor-suggestion link
\* (which gets the click handler) or the "No vendors found" notice.
Row(vendor, dataVendor, selectable) ==
    [vendor |-> vendor, dataVendor |-> dataVendor, selectable |-> selectable]

\* The innerHTML fetchVendorSuggestions builds, as the parser reads it.
SuggestionRows(vendors) ==
    IF Len(vendors) = 0 THEN <<Row("", "", FALSE)>>
    ELSE [i \in 1..Len(vendors) |-> Row(vendors[i], AttrValue(vendors[i]), TRUE)]

clearTimeout(st, id) == [st EXCEPT !.timers = {tm \in @ : tm.id # id}]

\* setTimeout(() => fetchVendorSuggestions(searchTerm), delay): a timer with
\* `delay` milliseconds left.
setTimeout(st, searchTerm, delay) ==
    [st EXCEPT !.timers = @ \cup {[id |-> st.nextTimer + 1, left |-> delay,
                                  term |-> searchTerm]},
               !.nextTimer = @ + 1,
               !.autocompleteTimeout = st.nextTimer + 1]

\* A mutant of OnVendorInput: the previous timeout is not cleared.
OnVendorInputNoClear(st) ==
    LET searchTerm == Trim(st.vendorInput)
    IN IF Len(searchTerm) < 2
       THEN [st EXCEPT !.display = Hide(@, {"vendorAutocomplete"})]
       ELSE setTimeout(st, searchTerm, Debounce)

\* A mutant of OnVendorInput: a short text leaves the panel as it is.
OnVendorInputNoHide(st) ==
    LET searchTerm == Trim(st.vendorInput)
        cleared == IF st.autocompleteTimeout # 0
                   THEN clearTimeout(st, st.autocompleteTimeout) ELSE st
    IN IF Len(searchTerm) < 2 THEN cleared
       ELSE setTimeout(cleared, searchTerm, Debounce)

\* The input handler of #vendorName.
OnVendorInput(st) ==
    LET searchTerm == Trim(st.vendorInput)
        cleared == IF st.autocompleteTimeout # 0
                   THEN clearTimeout(st, st.autocompleteTimeout) ELSE st
    IN IF Len(searchTerm) < 2
       THEN [cleared EXCEPT !.display = Hide(@, {"vendorAutocomplete"})]
       ELSE setTimeout(cleared, searchTerm, Debounce)

\* fetchVendorSuggestions up to fetch.
fetchVendorSuggestions(st, searchTerm) ==
    [st EXCEPT !.lookups = @ \cup {[id |-> st.nextLookup + 1, term |-> searchTerm]},
               !.nextLookup = @ + 1]

\* The two .then and the .catch of fetchVendorSuggestions.
OnSuggestions(st, resp) ==
    IF resp.status = "neterr" \/ resp.error # "" THEN st
    ELSE [st EXCEPT !.rows = SuggestionRows(resp.vendors),
                    !.display = Show(@, {"vendorAutocomplete"})]

\* The click handler of a .vendor-suggestion row.
OnSuggestionClick(st, row) ==
    analyzeVendor([st EXCEPT !.vendorInput = row.dataVendor,
                             !.display = Hide(@, {"vendorAutocomplete"})],
                  row.dataVendor)

\* A mutant of OnDocumentClick: every click hides the panel.
OnDocumentClickAnywhere(st, target) ==
    [st EXCEPT !.display = Hide(@, {"vendorAutocomplete"})]

\* The click handler of document; target is "input", "panel" (the panel or
\* something inside it) or "outside".
OnDocumentClick(st, target) ==
    IF target # "input" /\ target # "panel"
    THEN [st EXCEPT !.display = Hide(@, {"vendorAutocomplete"})]
    ELSE st

\* ------------------------------------------------------ SpecAuto: actions
\* One step of the vendor tab: the page becomes st, and the history records
\* the event and whether it hid the panel.
AutoStep(ev, id, resp, st) ==
    /\ Becomes(st)
    /\ last' = Event(ev, "auto", id, resp)
    /\ hiddenBy' = IF display["vendorAutocomplete"] /\ ~st.display["vendorAutocomplete"]
                   THEN ev ELSE hiddenBy
    /\ hiddenAt' = IF display["vendorAutocomplete"] /\ ~st.display["vendorAutocomplete"]
                   THEN st.nextLookup ELSE hiddenAt
    /\ rowsFrom' = IF ev = "suggest" /\ resp.status # "neterr" /\ resp.error = ""
                   THEN (CHOOSE lk \in lookups \ st.lookups : TRUE).id
                   ELSE rowsFrom
    /\ UNCHANGED <<fmtVars, sections, tab>>

\* The user edits the vendor field, leaving `value` in it.
Input(value) ==
    /\ Len(Trim(value)) >= 2 => nextTimer < MaxTimers
    /\ AutoStep(IF Len(Trim(value)) < 2 THEN "inputShort" ELSE "input", 0, NoResp,
                OnVendorInput([Here EXCEPT !.vendorInput = value]))
    /\ lastInput' = InputEvent(value, 0, 0, "", 0)

\* 100 ms pass. A timeout that is due runs before the clock moves on.
Tick ==
    /\ \A tm \in timers : tm.left > 0
    /\ timers' = {[tm EXCEPT !.left = @ - 100] : tm \in timers}
    /\ lastInput' = [lastInput EXCEPT
                        !.elapsed = IF @ > Debounce THEN @ ELSE @ + 100]
    /\ last' = Event("tick", "auto", 0, NoResp)
    /\ UNCHANGED <<fmtVars, display, text, rendered, currentServiceId,
                   currentServiceData, inflight, nextReq, errorTimers,
                   vendorInput, autocompleteTimeout, nextTimer, lookups,
                   nextLookup, rows, tab, hiddenBy, hiddenAt, rowsFrom,
                   sections>>

\* A timeout set by the input handler runs: fetchVendorSuggestions(searchTerm).
TimerFire(tm) ==
    /\ tm \in timers
    /\ tm.left <= 0
    /\ AutoStep("lookup", 0, NoResp,
                fetchVendorSuggestions([Here EXCEPT !.timers = @ \ {tm}], tm.term))
    /\ lastInput' = [lastInput EXCEPT !.issued = @ + 1, !.term = tm.term,
                                      !.after = lastInput.elapsed]

\* The response of an autocomplete request arrives.
LookupSettle(lk, resp) ==
    /\ lk \in lookups
    /\ AutoStep("suggest", 0,
                [status |-> resp.status, error |-> resp.error,
                 body |-> IF resp.body = "vendors" /\ resp.vendors = <<>>
                          THEN "novendors" ELSE resp.body],
                OnSuggestions([Here EXCEPT !.lookups = @ \ {lk}], resp))
    /\ UNCHANGED lastInput

\* The user clicks row i of the panel: the row's own handler, if it has one,
\* then document's, whose target is inside the panel.
ClickRow(i) ==
    /\ display["vendorAutocomplete"]
    /\ i \in 1..Len(rows)
    /\ rows[i].selectable => nextReq < MaxAutoRequests
    /\ AutoStep(IF rows[i].selectable THEN "select" ELSE "clickPanel", i, NoResp,
                OnDocumentClick(IF rows[i].selectable
                                THEN OnSuggestionClick(Here, rows[i]) ELSE Here,
                                "panel"))
    /\ UNCHANGED lastInput

\* The user clicks the vendor field, or somewhere outside field and panel,
\* while the panel is open (the handler has nothing to hide otherwise).
Click(target) ==
    /\ display["vendorAutocomplete"]
    /\ AutoStep(IF target = "input" THEN "clickInput" ELSE "clickOutside", 0, NoResp,
                OnDocumentClick(Here, target))
    /\ UNCHANGED lastInput

\* The vendor form is submitted with the text the field holds.
SubmitVendor ==
    /\ OnVendorFormSubmit(Here, vendorInput).nextReq <= MaxAutoRequests
    /\ AutoStep(IF IsBlank(vendorInput) THEN "blank" ELSE "submit", 0, NoResp,
                OnVendorFormSubmit(Here, vendorInput))
    /\ UNCHANGED lastInput

InitAuto ==
    /\ InitPage
    /\ tab = "vendor"
    /\ fmtIn = 0
    /\ fmtOut = NoFmt
    /\ viewIn = NoView
    /\ viewOut = NoView
    /\ sections = NoSections

NextAuto ==
    \/ \E value \in InputValues : Input(value)
    \/ Tick
    \/ \E tm \in timers : TimerFire(tm)
    \/ \E lk \in lookups, resp \in LookupResponses : LookupSettle(lk, resp)
    \/ \E i \in 1..Len(rows) : ClickRow(i)
    \/ \E target \in {"input", "outside"} : Click(target)
    \/ SubmitVendor

SpecAuto == InitAuto /\ [][NextAuto]_vars

\* ------------------------------------------------------------- SpecFmt
\* The formatter applied to one argument after another.
Margins == (0 - MaxGMTenths)..MaxGMTenths

ApplyGM(gm) ==
    /\ fmtIn' = gm
    /\ fmtOut' = [text |-> getGMStatusText(gm), class |-> getGMStatusClass(gm),
                  card |-> getGMCardClass(gm)]
    /\ UNCHANGED <<viewIn, viewOut, ctlVars, sections, tab, last, autoHist>>

InitFmt ==
    /\ InitPage
    /\ tab = "service"
    /\ fmtIn = 0
    /\ fmtOut = NoFmt
    /\ viewIn = NoView
    /\ viewOut = NoView
    /\ sections = NoSections

NextFmt == \E gm \in Margins : ApplyGM(gm)

SpecFmt == InitFmt /\ [][NextFmt]_vars

\* ------------------------------------------------------------- SpecView
\* The renderers as functions from the payload to what they write. What a
\* renderer writes is a sequence of blocks (cards, rows, notices) in document
\* order, and whether it leaves its section visible.
\* Entries of a collection in one payload.
MaxQuotes == 3

\* distance_meters of the nearby quotes. toFixed rounds the binary value of
\* d / 1000, so a d that ends in 50 rounds either way; none is used here.
Distances == {100, 500, 1200}

\* A nearby quote: id is its position in nearby_quotes as received.
NearbyQuote(id, same, dist) ==
    [id |-> id, is_same_vendor |-> same, distance_meters |-> dist]

NearbyLists ==
    UNION {{[i \in 1..n |-> NearbyQuote(i, f[i][1], f[i][2])] :
               f \in [1..n -> BOOLEAN \X Distances]} : n \in 0..MaxQuotes}

\* A block of output: a notice, or the card of quote id with the number and
\* the unit its distance badge shows.
Block(kind, id, number, unit) ==
    [kind |-> kind, id |-> id, number |-> number, unit |-> unit]
Placeholder == Block("placeholder", 0, "", "")

Written(fn, shown, blocks) == [fn |-> fn, shown |-> shown, blocks |-> blocks]

\* ToNumber of a boolean, as the subtraction of two booleans takes it.
Number(b) == IF b THEN 1 ELSE 0

\* (x / 1000).toFixed(1) for x in whole units: tenths, rounded to nearest.
ThousandthsToFixed1(x) ==
    LET n == (x + 50) \div 100
    IN ToString(n \div 10) \o "." \o ToString(n % 10)

\* The comparator of sortedQuotes.
CompareNearby(a, b) ==
    IF a.is_same_vendor # b.is_same_vendor
    THEN Number(b.is_same_vendor) - Number(a.is_same_vendor)
    ELSE a.distance_meters - b.distance_meters

\* Array.prototype.sort is stable: x goes behind every element that does not
\* compare greater than it.
RECURSIVE SortInsert(_, _)
SortInsert(sorted, x) ==
    IF sorted = <<>> THEN <<x>>
    ELSE IF CompareNearby(sorted[1], x) <= 0
         THEN <<sorted[1]>> \o SortInsert(Tail(sorted), x)
         ELSE <<x>> \o sorted

RECURSIVE sortedQuotes(_)
sortedQuotes(nearbyQuotes) ==
    IF nearbyQuotes = <<>> THEN <<>>
    ELSE SortInsert(sortedQuotes(SubSeq(nearbyQuotes, 1, Len(nearbyQuotes) - 1)),
                    nearbyQuotes[Len(nearbyQuotes)])

\* displayNearbyQuotes of the service analysis (analyze.js): the quotes in
\* the order received, the distance in meters.
displayNearbyQuotes(nearbyQuotes) ==
    IF Len(nearbyQuotes) = 0
    THEN Written("displayNearbyQuotes", TRUE, <<Placeholder>>)
    ELSE Written("displayNearbyQuotes", TRUE,
                 [i \in 1..Len(nearbyQuotes) |->
                     Block("card", nearbyQuotes[i].id,
                           ToString(nearbyQuotes[i].distance_meters), "m")])

\* displayNearbyQuotes of the renewal analysis (the renewal script declares a
\* function of the same name): the quotes sorted, the distance in kilometers;
\* with no quote the section is hidden and nothing is written.
displayRenewalNearbyQuotes(nearbyQuotes) ==
    IF Len(nearbyQuotes) = 0
    THEN Written("displayRenewalNearbyQuotes", FALSE, <<>>)
    ELSE LET sorted == sortedQuotes(nearbyQuotes)
         IN Written("displayRenewalNearbyQuotes", TRUE,
                    [i \in 1..Len(sorted) |->
                        Block("card", sorted[i].id,
                              ThousandthsToFixed1(sorted[i].distance_meters), "km")])

\* Discounts, in whole percent, from 0 to MaxDiscount.
MaxDiscount == 2

\* A number a payload may leave out.
Given(value) == [present |-> TRUE, value |-> value]
Absent == [present |-> FALSE, value |-> 0]

\* ToBoolean of an optional number: undefined, null and 0 are false.
Truthy(x) == x.present /\ x.value # 0

\* A quote as the projection block reads it: projected_with_negotiation, its
\* avg_discount and its best_discount.
Projections ==
    [has_projection : {TRUE}, avg_discount : 0..MaxDiscount,
     best_discount : {Absent} \cup {Given(v) : v \in 0..MaxDiscount}]
    \cup [has_projection : {FALSE}, avg_discount : {0}, best_discount : {Absent}]

\* A mutant of projectionHtml: the best case is shown from the average on.
projectionHtmlFromAvg(vq) ==
    IF ~vq.has_projection THEN <<>>
    ELSE <<"average">>
         \o IF Truthy(vq.best_discount) /\ vq.best_discount.value >= vq.avg_discount
            THEN <<"best">> ELSE <<>>

\* projectionHtml of displayVendorQuotes and of displayNearbyQuotes (the same
\* text in both): the average-case block, then the best-case block.
projectionHtml(vq) ==
    IF ~vq.has_projection THEN <<>>
    ELSE <<"average">>
         \o IF Truthy(vq.best_discount) /\ vq.best_discount.value > vq.avg_discount
            THEN <<"best">> ELSE <<>>

\* Characters in a text of a payload.
MaxText == 3

\* The characters escapeHtml replaces, and one it keeps.
Alphabet == {"a", "&", "<", ">", "\"", "'"}

RECURSIVE TextsUpTo(_)
TextsUpTo(n) ==
    IF n = 0 THEN {""}
    ELSE LET shorter == TextsUpTo(n - 1)
         IN shorter \cup {s \o c : s \in shorter, c \in Alphabet}

\* A text a payload may leave out (null or undefined).
GivenText(s) == [present |-> TRUE, value |-> s]
NoText == [present |-> FALSE, value |-> ""]
Texts == {NoText} \cup {GivenText(s) : s \in TextsUpTo(MaxText)}

\* A mutant of EscapeMap: the apostrophe has no entry.
EscapeMapButApostrophe(c) ==
    CASE c = "&" -> "&amp;"
      [] c = "<" -> "&lt;"
      [] c = ">" -> "&gt;"
      [] c = "\"" -> "&quot;"
      [] OTHER -> c

\* The map of escapeHtml; a character it lacks stays as it is.
EscapeMap(c) ==
    CASE c = "&" -> "&amp;"
      [] c = "<" -> "&lt;"
      [] c = ">" -> "&gt;"
      [] c = "\"" -> "&quot;"
      [] c = "'" -> "&#039;"
      [] OTHER -> c

\* String(text).replace(/[&<>"']/g, m => map[m])
RECURSIVE ReplaceAll(_)
ReplaceAll(s) ==
    IF Len(s) = 0 THEN ""
    ELSE EscapeMap(CharAt(s, 1)) \o ReplaceAll(SubSeq(s, 2, Len(s)))

\* Utils.escapeHtml
escapeHtml(txt) ==
    IF ~txt.present THEN "" ELSE ReplaceAll(txt.value)

\* Entries of a collection the card and table renderers are given.
MaxEntries == 2

\* Margins of the entries, in tenths of a percent: a Needs Action and an
\* Acceptable one.
EntryGMs == {350, 450}
\* gm_status as the backend sends it with a VPL option.
GMStatuses == {"success", "danger"}
\* vendor_name, service_type, title, ... of an entry.
EntryNames == {"ab", "<b"}

\* An entry of a collection (a quote, a VPL option, a recommendation, a
\* history line): id is its position as received; name stands for its text
\* fields, which a renderer treats alike.
Entry(id, gm, status, name, current) ==
    [id |-> id, gm |-> gm, gm_status |-> status, name |-> name,
     is_current_vendor |-> current]

EntryLists(n) ==
    {[i \in 1..n |-> Entry(i, f[i][1], f[i][2], f[i][3], f[i][4])] :
        f \in [1..n -> EntryGMs \X GMStatuses \X EntryNames \X BOOLEAN]}

\* A collection of a payload: left out, or a list.
GivenList(items) == [present |-> TRUE, items |-> items]
NoList == [present |-> FALSE, items |-> <<>>]
Collections ==
    {NoList} \cup {GivenList(q) : q \in UNION {EntryLists(n) : n \in 0..MaxEntries}}

\* !list || list.length === 0
NoneOf(coll) == ~coll.present \/ Len(coll.items) = 0

\* A block of a card or table renderer: its kind, the entry it shows, the
\* class of its margin badge ("" without one) and its text as interpolated.
Item(kind, id, class, html) == [kind |-> kind, id |-> id, class |-> class, html |-> html]
Notice == Item("placeholder", 0, "", "")

\* The entries of items that are (are not) the current vendor's, in order.
RECURSIVE Filter(_, _)
Filter(items, current) ==
    IF items = <<>> THEN <<>>
    ELSE (IF items[1].is_current_vendor = current THEN <<items[1]>> ELSE <<>>)
             \o Filter(Tail(items), current)

\* displayVendorQuotes: a card per quote, the name escaped.
displayVendorQuotes(vendorQuotes) ==
    IF NoneOf(vendorQuotes) THEN Written("displayVendorQuotes", TRUE, <<Notice>>)
    ELSE Written("displayVendorQuotes", TRUE,
                 [i \in 1..Len(vendorQuotes.items) |->
                     LET vq == vendorQuotes.items[i]
                     IN Item("card", vq.id, getGMStatusClass(vq.gm),
                             escapeHtml(GivenText(vq.name)))])

\* displayVPLOptions: a group per vendor (here each with one option).
displayVPLOptions(vplOptions) ==
    IF NoneOf(vplOptions) THEN Written("displayVPLOptions", TRUE, <<Notice>>)
    ELSE Written("displayVPLOptions", TRUE,
                 [i \in 1..Len(vplOptions.items) |->
                     LET opt == vplOptions.items[i]
                     IN Item("card", opt.id, getGMStatusClass(opt.gm),
                             escapeHtml(GivenText(opt.name)))])

\* displayRecommendations of the renewal analysis: strategy and rationale go
\* into the html as received.
displayRecommendations(recommendations) ==
    IF NoneOf(recommendations)
    THEN Written("displayRecommendations", TRUE, <<Notice>>)
    ELSE Written("displayRecommendations", TRUE,
                 [i \in 1..Len(recommendations.items) |->
                     Item("card", recommendations.items[i].id, "",
                          recommendations.items[i].name)])

\* gmClass of displayRenewalVplOptions: read from gm_status, not from gm.
RenewalVplGmClass(vpl) ==
    IF vpl.gm_status = "success" THEN "success"
    ELSE IF vpl.gm_status = "warning" THEN "warning"
    ELSE "danger"

\* A row of either table of displayRenewalVplOptions.
RenewalVplRow(vpl) == Item("row", vpl.id, "bg-" \o RenewalVplGmClass(vpl), vpl.name)

\* displayRenewalVplOptions as displayRenewalResults calls it (only for a
\* list with entries): the current vendor's table, then the alternatives'.
\* Without entries nothing is written and the section stays hidden.
displayRenewalVplOptions(vplOptions) ==
    IF NoneOf(vplOptions) THEN Written("displayRenewalVplOptions", FALSE, <<>>)
    ELSE LET ordered == Filter(vplOptions.items, TRUE) \o Filter(vplOptions.items, FALSE)
         IN Written("displayRenewalVplOptions", TRUE,
                    [i \in 1..Len(ordered) |-> RenewalVplRow(ordered[i])])

\* displayRenewalHistory (data.renewal_history || []): a table row per
\* renewal, service_id and status as received.
displayRenewalHistory(renewals) ==
    IF NoneOf(renewals) THEN Written("displayRenewalHistory", TRUE, <<Notice>>)
    ELSE Written("displayRenewalHistory", TRUE,
                 [i \in 1..Len(renewals.items) |->
                     Item("row", renewals.items[i].id, "", renewals.items[i].name)])

\* displayNewContractHistory (data.new_contract_history || [])
displayNewContractHistory(contracts) ==
    IF NoneOf(contracts) THEN Written("displayNewContractHistory", TRUE, <<Notice>>)
    ELSE Written("displayNewContractHistory", TRUE,
                 [i \in 1..Len(contracts.items) |->
                     Item("row", contracts.items[i].id, "", contracts.items[i].name)])

\* Lists of n entries that differ in margin and name only.
VariedLists(n, gms, names) ==
    {[i \in 1..n |-> Entry(i, f[i][1], "success", f[i][2], FALSE)] :
        f \in [1..n -> gms \X names]}

VariedCollections(gms, names) ==
    {NoList} \cup
    {GivenList(q) : q \in UNION {VariedLists(n, gms, names) : n \in 0..MaxEntries}}

\* Monthly charges of the price-list entries, in whole dollars.
Mrcs == {100, 200}

\* An entry of vendor_vpl: its margin and its monthly charge.
VplEntry(id, gm, mrc) ==
    [id |-> id, gm |-> gm, gm_status |-> "success", name |-> "ab",
     is_current_vendor |-> FALSE, mrc |-> mrc]

VplLists(n) ==
    {[i \in 1..n |-> VplEntry(i, f[i][1], f[i][2])] : f \in [1..n -> EntryGMs \X Mrcs]}

\* vendor_vpl of a strategy payload, in any order of its charges.
VplCollections ==
    {NoList} \cup {GivenList(q) : q \in UNION {VplLists(n) : n \in 0..MaxEntries}}

\* Utils.formatCurrency of a whole number of dollars below 1000.
formatCurrency(value) == "$" \o ToString(value) \o ".00"

\* What displayStrategy reads of a strategy payload: whether
\* negotiation_history is there, and its three collections.
StrategyPayloads ==
    [negotiation_history : BOOLEAN,
     vendor_vpl : VplCollections,
     alternatives : VariedCollections(EntryGMs, {"ab"}),
     recommendations : VariedCollections({450}, EntryNames)]

\* A part of a view that shows no entry.
Section(kind) == Item(kind, 0, "", "")

\* A mutant of StrategyHistory: without history nothing is said.
StrategyHistoryOrNothing(data) ==
    IF data.negotiation_history THEN <<Section("history")>> ELSE <<>>

\* displayStrategy: the history card, or the notice that there is none.
StrategyHistory(data) ==
    IF data.negotiation_history THEN <<Section("history")>>
    ELSE <<Section("nohistory")>>

\* displayStrategy: the price-list card, its options and the suggested
\* argument, when vendor_vpl has an entry.
StrategyVpl(data) ==
    IF NoneOf(data.vendor_vpl) THEN <<>>
    ELSE <<Section("vplSection")>>
         \o [i \in 1..Len(data.vendor_vpl.items) |->
                LET vpl == data.vendor_vpl.items[i]
                IN Item("vpl", vpl.id, getGMStatusClass(vpl.gm),
                        escapeHtml(GivenText(vpl.name)))]
         \o (LET bestVpl == data.vendor_vpl.items[1]
             IN <<Item("argument", bestVpl.id, "", formatCurrency(bestVpl.mrc))>>)

\* displayStrategy: the alternatives card, when alternatives has an entry.
StrategyAlternatives(data) ==
    IF NoneOf(data.alternatives) THEN <<>>
    ELSE <<Section("alternativesSection")>>
         \o [i \in 1..Len(data.alternatives.items) |->
                LET alt == data.alternatives.items[i]
                IN Item("alternative", alt.id, getGMStatusClass(alt.gm),
                        escapeHtml(GivenText(alt.name)))]

\* displayStrategy: the recommendations card, when there is a recommendation:
\* of each its title, escaped, and then its action text, as received.
StrategyRecommendations(data) ==
    IF NoneOf(data.recommendations) THEN <<>>
    ELSE <<Section("recommendationsSection")>>
         \o [k \in 1..(2 * Len(data.recommendations.items)) |->
                LET rec == data.recommendations.items[(k + 1) \div 2]
                IN IF k % 2 = 1
                   THEN Item("recommendation", rec.id, "",
                             escapeHtml(GivenText(rec.name)))
                   ELSE Item("action", rec.id, "", rec.name)]

\* The html displayStrategy builds, section after section.
StrategyHtml(data) ==
    Written("displayStrategy", TRUE,
            <<Section("current")>>
                \o StrategyHistory(data)
                \o <<Section("target40"), Section("target50")>>
                \o StrategyVpl(data)
                \o StrategyAlternatives(data)
                \o StrategyRecommendations(data))

\* discount_percent of a renewal of the vendor history, in tenths of a
\* percent, around the two thresholds; a price increase is negative.
DiscountTenths == {-10, 0, 49, 50, 51, 149, 150, 151, 200}
Discounts == {Absent} \cup {Given(d) : d \in DiscountTenths}

\* discountClass of a row of displayRenewalHistory.
discountClass(discount_percent) ==
    LET discount == IF Truthy(discount_percent) THEN discount_percent.value ELSE 0
    IN IF discount > 150 THEN "success"
       ELSE IF discount > 50 THEN "info"
       ELSE "secondary"

\* A renderer is applied to a payload, on the page as loaded (a renderer
\* reads nothing of what was written before: it overwrites its region).
Render(fn, arg, out) ==
    /\ viewIn = NoView
    /\ viewIn' = [fn |-> fn, arg |-> arg]
    /\ viewOut' = out
    /\ UNCHANGED <<fmtIn, fmtOut, ctlVars, sections, tab, last, autoHist>>

ShowNearbyQuotes(nearbyQuotes) ==
    Render("displayNearbyQuotes", nearbyQuotes, displayNearbyQuotes(nearbyQuotes))

ShowRenewalNearbyQuotes(nearbyQuotes) ==
    Render("displayRenewalNearbyQuotes", nearbyQuotes,
           displayRenewalNearbyQuotes(nearbyQuotes))

ShowProjection(vq) ==
    Render("projectionHtml", vq, Written("projectionHtml", TRUE, projectionHtml(vq)))

ApplyEscapeHtml(txt) ==
    Render("escapeHtml", txt, Written("escapeHtml", TRUE, <<escapeHtml(txt)>>))

ShowVendorQuotes(coll) ==
    Render("displayVendorQuotes", coll, displayVendorQuotes(coll))

ShowVPLOptions(coll) ==
    Render("displayVPLOptions", coll, displayVPLOptions(coll))

ShowRecommendations(coll) ==
    Render("displayRecommendations", coll, displayRecommendations(coll))

ShowRenewalVplOptions(coll) ==
    Render("displayRenewalVplOptions", coll, displayRenewalVplOptions(coll))

ShowRenewalHistory(coll) ==
    Render("displayRenewalHistory", coll, displayRenewalHistory(coll))

ShowNewContractHistory(coll) ==
    Render("displayNewContractHistory", coll, displayNewContractHistory(coll))

ShowStrategy(data) == Render("displayStrategy", data, StrategyHtml(data))











ShowDiscountBadge(discount_percent) ==
    Render("discountClass", discount_percent,
           Written("discountClass", TRUE, <<discountClass(discount_percent)>>))















\* The page is loaded anew.
Reload ==
    /\ viewIn # NoView
    /\ viewIn' = NoView
    /\ viewOut' = NoView
    /\ UNCHANGED <<fmtIn, fmtOut, ctlVars, sections, tab, last, autoHist>>

InitView ==
    /\ InitPage
    /\ tab = "service"
    /\ fmtIn = 0
    /\ fmtOut = NoFmt
    /\ viewIn = NoView
    /\ viewOut = NoView
    /\ sections = NoSections

NextView ==
    \/ \E q \in NearbyLists : ShowNearbyQuotes(q)
    \/ \E q \in NearbyLists : ShowRenewalNearbyQuotes(q)
    \/ \E vq \in Projections : ShowProjection(vq)
    \/ \E txt \in Texts : ApplyEscapeHtml(txt)
    \/ \E coll \in Collections : ShowVendorQuotes(coll)
    \/ \E coll \in Collections : ShowVPLOptions(coll)
    \/ \E coll \in Collections : ShowRecommendations(coll)
    \/ \E coll \in Collections : ShowRenewalVplOptions(coll)
    \/ \E coll \in Collections : ShowRenewalHistory(coll)
    \/ \E coll \in Collections : ShowNewContractHistory(coll)
    \/ \E data \in StrategyPayloads : ShowStrategy(data)





    \/ \E discount_percent \in Discounts : ShowDiscountBadge(discount_percent)







    \/ Reload

SpecView == InitView /\ [][NextView]_vars

\* --------------------------------------------------------- SpecRenewal
\* The renewal tab over several analyses: what the VPL section and the
\* nearby-quotes section keep from one payload to the next.
\* The collections of a renewal payload that has every other field.
RenewalPayloads ==
    [vpl_options : VariedCollections({450}, {"ab"}),
     nearby_quotes : {q \in NearbyLists : Len(q) <= 1}]

\* displayRenewalResults, the part that fills the two sections, for the
\* payload of request id: displayNearbyQuotes hides its section when there is
\* no quote and else writes and shows it; displayRenewalVplOptions writes
\* and shows its section when there is an option and else touches nothing.
renewalSections(secs, id, data) ==
    LET nearby == displayRenewalNearbyQuotes(data.nearby_quotes)
        vpl == displayRenewalVplOptions(data.vpl_options)
    IN [secs EXCEPT
           !["renewalNearbyQuotesSection"] =
               IF nearby.shown
               THEN [shown |-> TRUE, blocks |-> nearby.blocks, from |-> id]
               ELSE [@ EXCEPT !.shown = FALSE],
           !["renewalVplSection"] =
               IF vpl.shown
               THEN [shown |-> TRUE, blocks |-> vpl.blocks, from |-> id]
               ELSE @]

\* The response of a renewal analysis arrives with a payload and is rendered.
RenewalLoads(req, data) ==
    /\ req \in inflight
    /\ req.kind = "renewal"
    /\ Becomes(Settled(analyzeRenewalSettle(Here, req, OkPayload), req))
    /\ sections' = renewalSections(sections, req.id, data)
    /\ viewIn' = [fn |-> "displayRenewalResults", arg |-> data]
    /\ last' = Event("settle", "renewal", req.id, OkPayload)
    /\ UNCHANGED <<fmtIn, fmtOut, viewOut, tab, autoHist>>

InitRenewal ==
    /\ InitPage
    /\ tab = "renewal"
    /\ fmtIn = 0
    /\ fmtOut = NoFmt
    /\ viewIn = NoView
    /\ viewOut = NoView
    /\ sections = NoSections

NextRenewal ==
    \/ \E value \in FieldValues : Submit("renewal", value)
    \/ \E req \in inflight, data \in RenewalPayloads : RenewalLoads(req, data)
    \/ \E req \in inflight, resp \in Responses \ {OkPayload} : Settle(req, resp)

SpecRenewal == InitRenewal /\ [][NextRenewal]_vars

\* ================================================================ claims
\* What the claims call a failing response: the transport failed, the status
\* is a non-success one, the body carries an error field, or it does not parse.
Failing(resp) ==
    \/ resp.status \in {"neterr", "fail"}
    \/ resp.body \in {"error", "notjson"}

TierColour(statusText) ==
    CASE statusText = "Excellent" -> "success"
      [] statusText = "Acceptable" -> "warning"
      [] statusText = "Needs Action" -> "danger"

\* C1: for every margin m the status text is Excellent iff m >= 50, Acceptable
\* iff 40 <= m < 50 and Needs Action iff m < 40, and the badge class and the
\* card class carry the colour of that same tier.
C1_GMTiers ==
    fmtOut # NoFmt =>
        /\ (fmtOut.text = "Excellent") <=> (fmtIn >= 500)
        /\ (fmtOut.text = "Acceptable") <=> (fmtIn >= 400 /\ fmtIn < 500)
        /\ (fmtOut.text = "Needs Action") <=> (fmtIn < 400)
        /\ fmtOut.class = "bg-" \o TierColour(fmtOut.text)
        /\ fmtOut.card = "gm-" \o TierColour(fmtOut.text)

\* C1 witness: the boundary m = 40.0 has been classified, as Acceptable.
C1_Witness == fmtIn = 400 /\ fmtOut.text = "Acceptable" /\ fmtOut.class = "bg-warning"

\* C2: submitting a text that is empty after trimming issues no request and
\* changes nothing of the view, whatever the state of the page.
C2_BlankSubmitNoOp == [][last'.ev = "blank" => UNCHANGED ctlVars]_vars

\* C2 witness: a blank text was submitted while results were on display and
\* another request was still in flight.
C2_Witness ==
    /\ last.ev = "blank"
    /\ display[Results(last.kind)]
    /\ inflight # {}

\* C3: right after a call settles, whatever the outcome, the loading
\* indicator of its analysis type is hidden.
C3_SpinnerHiddenAfterSettle ==
    last.ev = "settle" => ~display[Spinner(last.kind)]

\* C3 witness: a service call settled with a body the renderer threw on.
C3_Witness ==
    /\ last.ev = "settle"
    /\ last.kind = "service"
    /\ last.resp.status = "ok"
    /\ last.resp.body = "empty"
    /\ ~display["loadingSpinner"]

\* C4: right after a failed analysis call is handled, the loading indicator is
\* hidden, the error banner is visible with a non-empty message, and the
\* results container of that analysis type is hidden.
C4_FailedCallErrorState ==
    (last.ev = "settle" /\ last.kind \in Types /\ Failing(last.resp)) =>
        /\ ~display[Spinner(last.kind)]
        /\ display[ErrorAlert(last.kind)]
        /\ text[ErrorMessage(last.kind)] # ""
        /\ ~display[Results(last.kind)]

\* C5: after two submissions of the same analysis type have both settled, the
\* displayed state is the one the response that arrived last produces: its
\* error and no results when it failed, its payload and no error otherwise.
\* (Two calls that did not overlap satisfy this by the second call's reset.)
C5_LastResponseWins ==
    (last.ev = "settle" /\ last.kind \in Types /\ nextReq = 2 /\ inflight = {}
        /\ last.resp.body # "empty") =>
        IF Failing(last.resp)
        THEN display[ErrorAlert(last.kind)] /\ ~display[Results(last.kind)]
        ELSE /\ display[Results(last.kind)]
             /\ rendered[Results(last.kind)].data.req = last.id
             /\ ~display[ErrorAlert(last.kind)]

\* C6: for a failing response whose body carries an error string e the banner
\* text is exactly e; for any other failing response it is a generic message.
C6_ErrorTextVerbatim ==
    (last.ev = "settle" /\ last.kind \in Types /\ Failing(last.resp)) =>
        IF last.resp.error # ""
        THEN text[ErrorMessage(last.kind)] = last.resp.error
        ELSE text[ErrorMessage(last.kind)] \notin ErrStrings \cup {""}

\* C7: the input events of a burst (each of trimmed length >= 2, each less
\* than 300 ms after the one before) issue exactly one lookup, 300 ms after
\* the last of them and with its trimmed text; at most one timer is pending.
C7_Debounce ==
    /\ Cardinality(timers) <= 1
    /\ lastInput.issued <= 1
    /\ lastInput.issued = 1 =>
           /\ lastInput.after = Debounce
           /\ lastInput.term = Trim(lastInput.value)
    /\ (Len(Trim(lastInput.value)) >= 2 /\ lastInput.elapsed > Debounce) =>
           lastInput.issued = 1

\* C7 witness: two input events set a timeout each, the second before the
\* first had run, and the one lookup issued carries the second's trimmed text.
C7_Witness ==
    /\ nextTimer = 2
    /\ nextLookup = 1
    /\ lastInput.issued = 1
    /\ lastInput.value = " bc "
    /\ lastInput.term = "bc"

\* C8: after an input event whose trimmed text is shorter than 2 characters
\* no lookup is pending, none is issued until the next input event, and the
\* panel is hidden in the state right after the event.
C8_ShortInputCancels ==
    /\ (lastInput # NoInput /\ Len(Trim(lastInput.value)) < 2) =>
           timers = {} /\ lastInput.issued = 0
    /\ last.ev = "inputShort" => ~display["vendorAutocomplete"]

\* C8 witness: a short text was typed while the panel was open and the second
\* timeout was pending; the panel went, and that timeout never ran.
C8_Witness ==
    /\ last.ev = "inputShort"
    /\ hiddenBy = "inputShort"
    /\ nextTimer = 2
    /\ nextLookup = 1
    /\ timers = {}

\* C9: selecting a row leaves the page as a form submission of the vendor the
\* row was written for leaves it (the field holds that name, the panel is
\* hidden, one vendor analysis with that name is requested); a lookup with no
\* match shows one row, and a click on that row changes nothing.
C9_SelectRunsAnalysis ==
    [][/\ last'.ev = "select" =>
              LET vendor == rows[last'.id].vendor
              IN /\ vendorInput' = vendor
                 /\ ~display'["vendorAutocomplete"]
                 /\ inflight' = inflight \cup {Request(nextReq + 1, "vendor", vendor, NoData)}
                 /\ Becomes(OnVendorFormSubmit([Here EXCEPT !.vendorInput = vendor],
                                               vendor))
       /\ (last'.ev = "suggest" /\ last'.resp.body = "novendors") =>
              Len(rows') = 1 /\ ~rows'[1].selectable
       /\ last'.ev = "clickPanel" => UNCHANGED ctlVars]_vars

\* C10 as claimed: the panel goes from visible to hidden only by an input
\* event with a short text, by the selection of a row, or by a click outside
\* the field and the panel.
C10_OnlyThreeTriggers ==
    hiddenBy \in {"none", "inputShort", "select", "clickOutside"}

\* C10 as amended: ... or by a submission of the vendor form with a text that
\* is not empty after trimming. A click on the field, a click on the panel
\* that selects nothing, and every other event leave the panel as it is.
C10_OnlyFourTriggers ==
    hiddenBy \in {"none", "inputShort", "select", "clickOutside", "submit"}

\* C10 witness: a form submission hid the open panel.
C10_Witness == hiddenBy = "submit" /\ last.ev = "submit" /\ rows # <<>>

\* The two Nearby-Quotes views.
NearbyViews == {"displayNearbyQuotes", "displayRenewalNearbyQuotes"}

\* C11: a Nearby-Quotes view shows each received quote once, the quotes of the
\* subject's own vendor before the others, each group by non-decreasing
\* distance, and quotes equal on both keys in the order received.
C11_NearbySorted ==
    (viewOut.fn \in NearbyViews /\ viewIn.arg # <<>>) =>
        LET got == viewIn.arg
            out == viewOut.blocks
        IN /\ Len(out) = Len(got)
           /\ {out[i].id : i \in 1..Len(out)} = 1..Len(got)
           /\ \A i, j \in 1..Len(out) :
                  i < j =>
                      LET a == got[out[i].id]
                          b == got[out[j].id]
                      IN /\ ~(~a.is_same_vendor /\ b.is_same_vendor)
                         /\ a.is_same_vendor = b.is_same_vendor =>
                                a.distance_meters <= b.distance_meters
                         /\ (a.is_same_vendor = b.is_same_vendor
                                 /\ a.distance_meters = b.distance_meters) =>
                                a.id < b.id

\* C12: the distance badge of every nearby quote shows meters below 1000 m
\* and kilometers with one decimal from 1000 m on.
C12_DistanceBadge ==
    (viewOut.fn \in NearbyViews /\ viewIn.arg # <<>>) =>
        \A i \in 1..Len(viewOut.blocks) :
            LET d == viewIn.arg[viewOut.blocks[i].id].distance_meters
                badge == viewOut.blocks[i]
            IN IF d < 1000
               THEN badge.unit = "m" /\ badge.number = ToString(d)
               ELSE badge.unit = "km" /\ badge.number = ThousandthsToFixed1(d)

\* C13: for a quote with a projection the average-case block is rendered, and
\* the best-case block is rendered exactly when best_discount is present and
\* strictly greater than avg_discount.
C13_BestCaseBlock ==
    (viewOut.fn = "projectionHtml" /\ viewIn.arg.has_projection) =>
        LET best == viewIn.arg.best_discount
            blocks == {viewOut.blocks[i] : i \in 1..Len(viewOut.blocks)}
        IN /\ "average" \in blocks
           /\ ("best" \in blocks) <=>
                  (best.present /\ best.value > viewIn.arg.avg_discount)
           /\ Len(viewOut.blocks) = Cardinality(blocks)

\* C13 witness: best_discount equal to avg_discount (both 1) left the
\* average-case block alone.
C13_Witness ==
    /\ viewOut.fn = "projectionHtml"
    /\ viewIn.arg.has_projection
    /\ viewIn.arg.best_discount = Given(1)
    /\ viewIn.arg.avg_discount = 1
    /\ viewOut.blocks = <<"average">>

\* The five entities escapeHtml writes, and the character each stands for.
Entities == {"&amp;", "&lt;", "&gt;", "&quot;", "&#039;"}

EntityChar(e) ==
    CASE e = "&amp;" -> "&"
      [] e = "&lt;" -> "<"
      [] e = "&gt;" -> ">"
      [] e = "&quot;" -> "\""
      [] e = "&#039;" -> "'"

\* The entity that starts at position i of s, "" when none does.
EntityAt(s, i) ==
    IF \E e \in Entities : i + Len(e) - 1 <= Len(s) /\ SubSeq(s, i, i + Len(e) - 1) = e
    THEN CHOOSE e \in Entities :
             i + Len(e) - 1 <= Len(s) /\ SubSeq(s, i, i + Len(e) - 1) = e
    ELSE ""

\* The text a browser shows for s: each entity read as its character, every
\* other character as itself.
RECURSIVE Shown(_)
Shown(s) ==
    IF Len(s) = 0 THEN ""
    ELSE IF EntityAt(s, 1) # ""
         THEN EntityChar(EntityAt(s, 1))
                  \o Shown(SubSeq(s, Len(EntityAt(s, 1)) + 1, Len(s)))
         ELSE CharAt(s, 1) \o Shown(SubSeq(s, 2, Len(s)))

\* C18: escapeHtml(s) has no literal <, >, " or '; every & in it starts one of
\* the five entities; read back, it is s character for character; null and
\* undefined give the empty string.
C18_EscapeHtml ==
    viewOut.fn = "escapeHtml" =>
        LET out == viewOut.blocks[1]
        IN /\ \A i \in 1..Len(out) :
                  /\ CharAt(out, i) \notin {"<", ">", "\"", "'"}
                  /\ CharAt(out, i) = "&" => EntityAt(out, i) # ""
           /\ viewIn.arg.present => Shown(out) = viewIn.arg.value
           /\ ~viewIn.arg.present => out = ""

\* C18 witness: "<&'" became "&lt;&amp;&#039;".
C18_Witness ==
    /\ viewOut.fn = "escapeHtml"
    /\ viewIn.arg = GivenText("<&'")
    /\ viewOut.blocks = <<"&lt;&amp;&#039;">>

\* The kinds of the blocks of a view that are in S, in document order.
RECURSIVE KindsIn(_, _)
KindsIn(blocks, S) ==
    IF blocks = <<>> THEN <<>>
    ELSE (IF blocks[1].kind \in S THEN <<blocks[1].kind>> ELSE <<>>)
             \o KindsIn(Tail(blocks), S)

\* The entries the blocks of one kind show, in document order.
RECURSIVE IdsOf(_, _)
IdsOf(blocks, kind) ==
    IF blocks = <<>> THEN <<>>
    ELSE (IF blocks[1].kind = kind THEN <<blocks[1].id>> ELSE <<>>)
             \o IdsOf(Tail(blocks), kind)

\* The renderers of a collection that take it as a list that may be absent.
ListViews ==
    {"displayVendorQuotes", "displayVPLOptions", "displayRecommendations",
     "displayRenewalVplOptions", "displayRenewalHistory",
     "displayNewContractHistory"}

\* One informational placeholder and nothing else, in a visible section.
OnePlaceholder(out) ==
    /\ out.shown
    /\ Len(out.blocks) = 1
    /\ out.blocks[1].kind = "placeholder"

\* C14: a renderer given an empty or absent collection writes exactly one
\* informational placeholder block for it.
C14_EmptyPlaceholder ==
    /\ (viewOut.fn \in ListViews /\ NoneOf(viewIn.arg)) => OnePlaceholder(viewOut)
    /\ (viewOut.fn \in NearbyViews /\ viewIn.arg = <<>>) => OnePlaceholder(viewOut)
    /\ (viewOut.fn = "displayStrategy" /\ NoneOf(viewIn.arg.recommendations)) =>
           Len(IdsOf(viewOut.blocks, "placeholder")) = 1

StrategySectionKinds ==
    {"current", "history", "nohistory", "target40", "target50", "vplSection",
     "alternativesSection", "recommendationsSection"}

\* C20: the Strategy view has, in this order, the current situation, the
\* history block or else the no-history notice, the 40% and 50% target cards,
\* the price-list comparison iff vendor_vpl has an entry, the alternatives iff
\* there is one, and the recommendations in the order received.
C20_StrategyOrder ==
    viewOut.fn = "displayStrategy" =>
        LET data == viewIn.arg
            blocks == viewOut.blocks
        IN /\ KindsIn(blocks, StrategySectionKinds) =
                  <<"current">>
                  \o (IF data.negotiation_history THEN <<"history">> ELSE <<"nohistory">>)
                  \o <<"target40", "target50">>
                  \o (IF Len(data.vendor_vpl.items) >= 1 THEN <<"vplSection">> ELSE <<>>)
                  \o (IF Len(data.alternatives.items) >= 1
                      THEN <<"alternativesSection">> ELSE <<>>)
                  \o (IF Len(data.recommendations.items) >= 1
                      THEN <<"recommendationsSection">> ELSE <<>>)
           /\ IdsOf(blocks, "recommendation") =
                  [i \in 1..Len(data.recommendations.items) |-> i]
           /\ \A i, j \in 1..Len(blocks) :
                  (blocks[i].kind = "recommendation" /\ blocks[j].kind # "recommendation"
                       /\ blocks[j].kind # "action") => j < i

\* C20 witness: a payload without history, with price-list options and two
\* recommendations but no alternative, was rendered.
C20_Witness ==
    /\ viewOut.fn = "displayStrategy"
    /\ ~viewIn.arg.negotiation_history
    /\ Len(viewIn.arg.vendor_vpl.items) = 1
    /\ NoneOf(viewIn.arg.alternatives)
    /\ Len(viewIn.arg.recommendations.items) = 2
    /\ KindsIn(viewOut.blocks, StrategySectionKinds \cup {"recommendation"}) =
           <<"current", "nohistory", "target40", "target50", "vplSection",
             "recommendationsSection", "recommendation", "recommendation">>

\* The renderers of one collection that put a margin badge on each entry.
BadgeViews == {"displayVendorQuotes", "displayVPLOptions", "displayRenewalVplOptions"}

\* The entry of the payload that a block of the rendered view shows.
EntryShown(b) ==
    IF viewOut.fn = "displayStrategy"
    THEN (IF b.kind = "vpl" THEN viewIn.arg.vendor_vpl.items[b.id]
          ELSE viewIn.arg.alternatives.items[b.id])
    ELSE viewIn.arg.items[b.id]

\* The blocks of the rendered view that carry a margin badge.
Badged ==
    IF viewOut.fn \in BadgeViews
    THEN {i \in 1..Len(viewOut.blocks) : viewOut.blocks[i].kind \in {"card", "row"}}
    ELSE IF viewOut.fn = "displayStrategy"
    THEN {i \in 1..Len(viewOut.blocks) : viewOut.blocks[i].kind \in {"vpl", "alternative"}}
    ELSE {}

\* C16: two rendered entries (quote, VPL option, alternative) of equal margin
\* percentage have a badge of the same colour, whatever their other fields.
C16_BadgeByMargin ==
    \A i, j \in Badged :
        EntryShown(viewOut.blocks[i]).gm = EntryShown(viewOut.blocks[j]).gm
            => viewOut.blocks[i].class = viewOut.blocks[j].class

\* The kinds of block that interpolate a text field of a payload entry.
TextKinds == {"card", "row", "vpl", "alternative", "recommendation", "action"}

\* The text field of the payload that a block of the rendered view shows.
TextShown(b) ==
    IF b.kind \in {"recommendation", "action"}
    THEN viewIn.arg.recommendations.items[b.id].name
    ELSE EntryShown(b).name

\* C17: every text field of a payload is in the html as Utils.escapeHtml
\* returns it, in every renderer.
C17_AllEscaped ==
    viewOut.fn \in ListViews \cup {"displayStrategy"} =>
        \A i \in 1..Len(viewOut.blocks) :
            viewOut.blocks[i].kind \in TextKinds =>
                viewOut.blocks[i].html =
                    escapeHtml(GivenText(TextShown(viewOut.blocks[i])))

\* The step just taken handed a service analysis its payload: status ok and a
\* body with the fields displayResults reads.
ServiceLoaded ==
    /\ last'.ev = "settle"
    /\ last'.kind = "service"
    /\ last'.resp.status = "ok"
    /\ last'.resp.body = "payload"

\* C15: currentServiceData and currentServiceId change only in the step in
\* which a service analysis loads successfully (a submission, a response still
\* awaited, a failing call leave both as they were), and after that step both
\* describe the same service.
C15_AssignedOnSuccess ==
    [][/\ ~ServiceLoaded => UNCHANGED <<currentServiceId, currentServiceData>>
       /\ ServiceLoaded => currentServiceData'.arg = currentServiceId']_vars

\* The sections that the success path of an analysis type shows.
ResultSections(t) ==
    CASE t = "service" -> {"resultsContainer", "quickStats"}
      [] t = "renewal" -> {"renewalQuickSummary", "vocLineInfo", "renewalResults"}
      [] t = "vendor" -> {"vendorQuickSummary", "vendorResults"}

\* C19: a non-empty submission issues exactly one request, whatever is in
\* flight, and right after it the spinner of its type is visible and the
\* error banner and every result section of that type are hidden.
C19_SubmitResets ==
    [][last'.ev = "submit" =>
           /\ nextReq' = nextReq + 1
           /\ inflight \subseteq inflight'
           /\ Cardinality(inflight' \ inflight) = 1
           /\ display'[Spinner(last'.kind)]
           /\ ~display'[ErrorAlert(last'.kind)]
           /\ \A e \in ResultSections(last'.kind) : ~display'[e]]_vars

\* C21: the entry quoted in the suggested-argument sentence of the Strategy
\* view is one of minimum mrc among vendor_vpl, in whatever order received.
C21_ArgumentQuotesCheapest ==
    viewOut.fn = "displayStrategy" =>
        \A i \in 1..Len(viewOut.blocks) :
            viewOut.blocks[i].kind = "argument" =>
                \A k \in 1..Len(viewIn.arg.vendor_vpl.items) :
                    viewIn.arg.vendor_vpl.items[viewOut.blocks[i].id].mrc
                        <= viewIn.arg.vendor_vpl.items[k].mrc

\* C22: the discount badge of a renewal row is the high tier iff
\* discount_percent >= 15, the medium tier iff 5 < discount_percent < 15, the
\* neutral tier otherwise; a missing discount counts as 0.
C22_DiscountTiers ==
    viewOut.fn = "discountClass" =>
        LET d == IF viewIn.arg.present THEN viewIn.arg.value ELSE 0
        IN viewOut.blocks =
               <<IF d >= 150 THEN "success"
                 ELSE IF d > 50 THEN "info"
                 ELSE "secondary">>

\* The step just taken handed an analysis a response that succeeded at
\* transport level, carries no error field and lacks the fields the renderer
\* reads.
IncompleteLoaded ==
    /\ last'.ev = "settle"
    /\ last'.kind \in Types
    /\ last'.resp.status = "ok"
    /\ last'.resp.body = "empty"

\* C23: a response that succeeds at transport level, has no error field and
\* lacks an expected field is still rendered: right after it the result
\* section of its type is visible and its error banner is not.
C23_IncompleteStillRendered ==
    [][IncompleteLoaded =>
           /\ display'[Results(last'.kind)]
           /\ ~display'[ErrorAlert(last'.kind)]]_vars

\* C24: while a request of an analysis type is in flight, the loading
\* indicator of that type is visible.
C24_SpinnerWhileInFlight ==
    \A t \in Types :
        (\E req \in inflight : req.kind = t) => display[Spinner(t)]

\* C25: while service results are visible, the service id their View
\* Strategy buttons pass to showStrategy is the one of the payload the cards
\* were rendered from, and the vpl_options a strategy request attaches are
\* those of that payload.
C25_ButtonsMatchPayload ==
    [][/\ (display'["resultsContainer"] /\ rendered'["resultsContainer"].kind = "results")
              => rendered'["resultsContainer"].buttonServiceId =
                     rendered'["resultsContainer"].data.arg
       /\ last'.ev = "strategy"
              => \A req \in inflight' \ inflight :
                     req.vpl.arg = rendered["resultsContainer"].data.arg]_vars

\* C26: once an event has hidden the suggestion panel, the response that
\* makes it visible again is that of a lookup issued after the hiding, never
\* of one that was in flight then.
C26_NoReopenByEarlierLookup ==
    [][(last'.ev = "suggest" /\ hiddenBy # "none"
            /\ ~display["vendorAutocomplete"] /\ display'["vendorAutocomplete"])
           => \A lk \in lookups \ lookups' : lk.id > hiddenAt]_vars

\* C27: the response that writes the rows of the suggestion panel is never
\* that of a lookup issued before the one whose rows it replaces.
C27_RowsOfLatestLookup ==
    [][rowsFrom' >= rowsFrom]_vars

\* C28: the error banner of Utils.showError is hidden only by a new
\* submission (Utils.hideError) or by a timeout that runs when the 5 seconds
\* of the error shown last have passed, never earlier by the timeout of an
\* earlier error.
C28_ErrorStaysFiveSeconds ==
    [][(display["errorAlert"] /\ ~display'["errorAlert"])
           => \/ last'.ev = "submit"
              \/ /\ last'.ev = "errorTimer"
                 /\ errorTimers[Len(errorTimers)] <= 0]_vars

\* C29: the response of a showStrategy call that is not the most recent one
\* (a later strategy request is still in flight) neither fills the modal nor
\* changes its loading indicator.
C29_OnlyLatestStrategyFillsModal ==
    [][(/\ last'.ev = "settle"
        /\ last'.kind = "strategy"
        /\ \E r \in inflight' : r.kind = "strategy" /\ r.id > last'.id)
           => /\ rendered'["strategyContent"] = rendered["strategyContent"]
              /\ display'["strategyContent"] = display["strategyContent"]
              /\ display'["strategyLoading"] = display["strategyLoading"]]_vars

\* C30: while renewal results are visible, the VPL section and the
\* nearby-quotes section, where visible, show what the payload rendered last
\* wrote, never the rows of an earlier analysis.
C30_SectionsOfLastPayload ==
    display["renewalResults"] =>
        \A s \in RenewalSections :
            sections[s].shown =>
                sections[s].from = rendered["renewalResults"].data.req

=============================================================================
